---- MODULE Spec2Model ----
(***************************************************************************)
(* home_usage.py: warn users whose home directory exceeds a limit, at most *)
(* once a day.  The overage collection, the wall clock, the Starfish and   *)
(* Workday responders and the mail transport are the environment; one run  *)
(* of the program is a process that walks the usage list record by record. *)
(* Sizes are byte counts written in two limbs of 2^20 (TiB = 2^20 * 2^20). *)
(***************************************************************************)
EXTENDS Integers, Sequences, FiniteSets, TLC

\* ---------------------------------------------------------------- bounds
MaxRecs == 2
MaxOverlapRecs == 1
MaxDays == 1

\* ------------------------------------------------------------- constants
DAY == 3600 * 24
Mi == 1024 * 1024

Procs == {1, 2}
Users == {"alice", "bob"}
NoUser == "-"

\* The instants the clock can show: the start, the last second of the first
\* day, and every midnight after.
Instants == {0, DAY - 1} \cup {k * DAY : k \in 1..MaxDays}

\* --limit, a number of TiB as a fraction: 0.5 (the default) and 0.1, whose
\* byte count 2^40 / 10 is not whole.  (The float product LIMIT * 1024 ** 4 is
\* within 10^-4 of the fraction's, so it compares to an integer size as the
\* fraction does.)
TiB(num, den) == [num |-> num, den |-> den]
DefaultLimit == TiB(1, 2)
Limits == {DefaultLimit, TiB(1, 10)}

\* rec_aggrs.size as <<hi, lo>> limbs: size = hi * 2^20 + lo.
Bytes(hi, lo) == [hi |-> hi, lo |-> lo]
\* The largest whole byte count not over limit TiB.
Floor(limit) ==
    Bytes((limit.num * Mi) \div limit.den,
          (((limit.num * Mi) % limit.den) * Mi) \div limit.den)
Sizes == {Floor(l) : l \in Limits} \cup {Bytes(Floor(l).hi, Floor(l).lo + 1) : l \in Limits}
NoSize == Bytes(0, 0)

\* rec_aggrs.size_hum: Starfish's rounded rendering, here in whole TiB,
\* rounded up.
size_hum(size) == (size.hi + Mi - 1) \div Mi
NoHum == size_hum(NoSize)

\* The records the Starfish query can return for a user.
UsageRecs == {[fn |-> u, size |-> s, size_hum |-> size_hum(s)] : u \in Users, s \in Sizes}

\* What requests.get can come back with: a status code and, on 200, a body
\* (code 0 stands for a RequestException).
Failures == {0, 400, 404, 500}
Reply(code, body) == [code |-> code, body |-> body]

\* Bodies of the Workday responder (a body with 'config' has 'first' and
\* 'email' too).
NoWork == [some |-> FALSE, config |-> FALSE, active |-> "-"]
Works == {[some |-> TRUE, config |-> TRUE, active |-> "Y"],
          [some |-> TRUE, config |-> TRUE, active |-> "N"],
          [some |-> TRUE, config |-> FALSE, active |-> "-"]}
WorkdayReplies == {Reply(200, w) : w \in Works} \cup {Reply(c, NoWork) : c \in Failures}

\* The Starfish query: the model keeps the length of the list it returns.
StarfishReplies(max) == {Reply(200, n) : n \in 0..max} \cup {Reply(c, 0) : c \in Failures}

\* What a run meets: the limits and --write flags it is started with, the
\* answers of the Starfish query, the usage records its list is made of, and
\* the answers of the Workday responder.
Input(limits, writes, lists, recs, replies) ==
    [limits |-> limits, writes |-> writes, lists |-> lists, recs |-> recs,
     replies |-> replies]

\* clock   the wall clock (datetime.now()), in seconds
\* ledger  the overage collection: userId -> [size, notified]
\* sent    per user, the last two mails that JRC.send_email delivered
\* pc      where each run of the program is
\* arg     ARG.LIMIT and ARG.WRITE of each run
\* todo    how many records of resp the for loop has not reached yet
\* last    the record the loop is at, with what was looked up and the colour
\*         (or log level) of the last line written about it
\* met     whether the run has overlapped another run
VARIABLES clock, ledger, sent, pc, arg, todo, last, met

vars == <<clock, ledger, sent, pc, arg, todo, last, met>>

\* ------------------------------------------------------- pure functions
\* The comparison written >= instead of >.
MutExceedsOrEqual(size, limit) ==
    LET whole == (limit.num * Mi) \div limit.den
        part == (limit.num * Mi) % limit.den
    IN \/ size.hi > whole
       \/ size.hi = whole /\ size.lo * limit.den >= part * Mi

\* usr['rec_aggrs']['size'] > ARG.LIMIT * (1024 ** 4): the limit in bytes is
\* (whole + part / den) * 2^20, compared limb by limb.
exceeds_threshold(size, limit) ==
    LET whole == (limit.num * Mi) \div limit.den
        part == (limit.num * Mi) % limit.den
    IN \/ size.hi > whole
       \/ size.hi = whole /\ size.lo * limit.den > part * Mi

\* The elapsed days rounded up instead of down.
MutDeltaDaysCeil(now, then) ==
    LET d == now - then
    IN IF d >= 0 THEN (d + DAY - 1) \div DAY ELSE -((-d) \div DAY)

\* timedelta.days of (now - then): floor of the elapsed seconds over a day.
delta_days(now, then) ==
    LET d == now - then
    IN IF d >= 0 THEN d \div DAY ELSE -(((-d) + DAY - 1) \div DAY)

\* call_responder: the JSON body on 200, None on 404, terminate otherwise.
call_responder(req, none) ==
    IF req.code = 200 THEN [exit |-> FALSE, data |-> req.body]
    ELSE IF req.code = 404 THEN [exit |-> FALSE, data |-> none]
    ELSE [exit |-> TRUE, data |-> none]

\* coll.find_one({'userId': userid}): the record, or None.
find_one(led, userid) == IF userid \in DOMAIN led THEN <<led[userid]>> ELSE <<>>

\* notify_allowed without the test of the active flag.
MutNotifyIgnoresActive(work, found, result) ==
    IF ~work.some \/ ~work.config THEN [exit |-> FALSE, value |-> FALSE, delta |-> FALSE]
    ELSE IF ~found THEN [exit |-> TRUE, value |-> FALSE, delta |-> FALSE]
    ELSE IF result = <<>> THEN [exit |-> FALSE, value |-> TRUE, delta |-> FALSE]
    ELSE [exit |-> FALSE, value |-> FALSE, delta |-> TRUE]

\* notify_allowed up to the result of find_one: found says whether find_one
\* returned (FALSE: it raised and the program terminated), result is what it
\* returned.  delta says that the function goes on to read the clock.
notify_allowed(work, found, result) ==
    IF ~work.some \/ ~work.config THEN [exit |-> FALSE, value |-> FALSE, delta |-> FALSE]
    ELSE IF work.active # "Y" THEN [exit |-> FALSE, value |-> FALSE, delta |-> FALSE]
    ELSE IF ~found THEN [exit |-> TRUE, value |-> FALSE, delta |-> FALSE]
    ELSE IF result = <<>> THEN [exit |-> FALSE, value |-> TRUE, delta |-> FALSE]
    ELSE [exit |-> FALSE, value |-> FALSE, delta |-> TRUE]

\* The cool-off test written delta.days >= 0.
MutNoCoolOff(result, now) == delta_days(now, result[1].notified) >= 0

\* notify_allowed from the clock on: delta = datetime.now() -
\* result['notified']; return bool(delta.days >= 1)
notify_allowed_delta(result, now) == delta_days(now, result[1].notified) >= 1

\* update_one without upsert=True: only a record that exists is changed.
MutUpdateOneNoUpsert(led, userid, payload) ==
    [u \in DOMAIN led |-> IF u = userid THEN payload ELSE led[u]]

\* The collection replaced by the one record.
MutUpdateOneDropsOthers(led, userid, payload) ==
    [u \in {userid} |-> payload]

\* coll.update_one({'userId': userid}, {"$set": payload}, upsert=True)
update_one(led, userid, payload) ==
    [u \in DOMAIN led \cup {userid} |-> IF u = userid THEN payload ELSE led[u]]

\* ------------------------------------------------------------------ state
Running(p) == pc[p] \in {"loop", "delta", "next", "send", "payload", "upsert"}

\* What a run holds of the record at hand: the line it printed, the Workday
\* entry, the result of find_one while notify_allowed is under way and the
\* payload while generate_email is.
NoReport == [user |-> NoUser, size |-> NoSize, size_hum |-> NoHum, colour |-> "none",
             looked |-> FALSE, work |-> NoWork, result |-> <<>>, payload |-> <<>>]

NoArg == [LIMIT |-> DefaultLimit, WRITE |-> FALSE]

\* terminate_program / sys.exit: the process is gone; its exit status stays
\* ("done" is 0, "failed" is -1), with the count of records not reached and
\* the line rep it left on the terminal.
Exit(p, how, rep) ==
    /\ pc' = [pc EXCEPT ![p] = how]
    /\ arg' = [arg EXCEPT ![p] = NoArg]
    /\ last' = [last EXCEPT ![p] = rep]

\* The mail sent in a dry run too.
MutAfterRedAlwaysSends(write) == "send"

\* if ARG.WRITE: generate_email(...), else on to the next record.
after_red(write) == IF write THEN "send" ELSE "next"

Init ==
    /\ clock = 0
    /\ ledger = [u \in {} |-> [size |-> NoHum, notified |-> 0]]
    /\ sent = [u \in Users |-> <<>>]
    /\ pc = [p \in Procs |-> "idle"]
    /\ arg = [p \in Procs |-> NoArg]
    /\ todo = [p \in Procs |-> 0]
    /\ last = [p \in Procs |-> NoReport]
    /\ met = [p \in Procs |-> FALSE]

\* The wall clock moves on.
Tick ==
    /\ \E t \in Instants : t > clock /\ clock' = t
    /\ UNCHANGED <<ledger, sent, pc, arg, todo, last, met>>

\* __main__, initialize_program and the head of process_usage: parse the
\* arguments, find the token and the database (boot) or terminate, fetch the
\* usage list of the group.  The list is an input read once; the model keeps
\* its length and draws each record when the loop reaches it.
Launch(p, in) ==
    /\ ~Running(p)
    /\ last' = [last EXCEPT ![p] = NoReport]
    /\ \E boot \in BOOLEAN :
         IF ~boot
         THEN /\ todo' = [todo EXCEPT ![p] = 0]
              /\ pc' = [pc EXCEPT ![p] = "failed"]
              /\ arg' = [arg EXCEPT ![p] = NoArg]
         ELSE \E limit \in in.limits, write \in in.writes, req \in in.lists :
                LET r == call_responder(req, 0)
                IN /\ todo' = [todo EXCEPT ![p] = r.data]
                   /\ IF r.exit
                      THEN /\ pc' = [pc EXCEPT ![p] = "failed"]
                           /\ arg' = [arg EXCEPT ![p] = NoArg]
                      ELSE IF req.code = 404
                      THEN \* for usr in None: TypeError
                           /\ pc' = [pc EXCEPT ![p] = "crashed"]
                           /\ arg' = [arg EXCEPT ![p] = NoArg]
                      ELSE /\ pc' = [pc EXCEPT ![p] = "loop"]
                           /\ arg' = [arg EXCEPT ![p] = [LIMIT |-> limit, WRITE |-> write]]
    /\ UNCHANGED <<clock, ledger, sent>>

\* Runs of the program one after the other.
StartRun(p, in) ==
    /\ \A q \in Procs : ~Running(q)
    /\ Launch(p, in)
    /\ met' = [met EXCEPT ![p] = FALSE]

\* Nothing keeps a second run from starting while one is under way.
StartOverlappingRun(p, in) ==
    /\ \E q \in Procs \ {p} : Running(q)
    /\ Launch(p, in)
    /\ met' = [q \in Procs |-> q = p \/ Running(q) \/ met[q]]

\* One pass of the for loop up to the result of find_one: threshold, Workday
\* lookup, notify_allowed as far as the ledger read, and the coloured line
\* when the clock is not needed to decide.
CheckUser(p, in) ==
    /\ pc[p] = "loop"
    /\ todo[p] > 0
    /\ todo' = [todo EXCEPT ![p] = @ - 1]
    /\ \E usr \in in.recs :
         IF ~exceeds_threshold(usr.size, arg[p].LIMIT)
         THEN /\ last' = [last EXCEPT ![p] =
                      [NoReport EXCEPT !.user = usr.fn, !.size = usr.size,
                                       !.size_hum = usr.size_hum, !.colour = "green"]]
              /\ pc' = [pc EXCEPT ![p] = "next"]
              /\ UNCHANGED arg
         ELSE \E req \in in.replies :
                LET r == call_responder(req, NoWork)
                IN IF r.exit
                   THEN Exit(p, "failed", NoReport)
                   ELSE \E found \in BOOLEAN :
                     LET result == find_one(ledger, usr.fn)
                         na == notify_allowed(r.data, found, result)
                         rep(c) == [NoReport EXCEPT !.user = usr.fn, !.size = usr.size,
                                                    !.size_hum = usr.size_hum, !.colour = c,
                                                    !.looked = TRUE, !.work = r.data]
                     IN IF na.exit
                        THEN Exit(p, "failed", NoReport)
                        ELSE IF na.delta
                        THEN /\ last' = [last EXCEPT ![p] =
                                            [rep("none") EXCEPT !.result = result]]
                             /\ pc' = [pc EXCEPT ![p] = "delta"]
                             /\ UNCHANGED arg
                        ELSE IF ~na.value
                        THEN /\ last' = [last EXCEPT ![p] = rep("yellow")]
                             /\ pc' = [pc EXCEPT ![p] = "next"]
                             /\ UNCHANGED arg
                        ELSE /\ last' = [last EXCEPT ![p] = rep("red")]
                             /\ pc' = [pc EXCEPT ![p] = after_red(arg[p].WRITE)]
                             /\ UNCHANGED arg
    /\ UNCHANGED <<clock, ledger, sent, met>>

\* The rest of notify_allowed for a user with a record: the clock is read
\* and set against the record find_one returned; then the coloured line.
CheckDelta(p) ==
    /\ pc[p] = "delta"
    /\ IF notify_allowed_delta(last[p].result, clock)
       THEN /\ last' = [last EXCEPT ![p].colour = "red", ![p].result = <<>>]
            /\ pc' = [pc EXCEPT ![p] = after_red(arg[p].WRITE)]
       ELSE /\ last' = [last EXCEPT ![p].colour = "yellow", ![p].result = <<>>]
            /\ pc' = [pc EXCEPT ![p] = "next"]
    /\ UNCHANGED <<clock, ledger, sent, arg, todo, met>>

\* The log of a user's mails keeps the last two.
Logged(log, e) == IF Len(log) < 2 THEN Append(log, e) ELSE <<log[2], e>>

\* generate_email without the return in the except clause: after a mail that
\* failed the ledger is written all the same.
MutSendEmailFallsThrough(p) ==
    /\ pc[p] = "send"
    /\ \E ok \in BOOLEAN :
         IF ok
         THEN sent' = [sent EXCEPT ![last[p].user] =
                          Logged(@, [at |-> clock, by |-> p, recorded |-> "pending",
                                     overlap |-> met[p]])]
         ELSE UNCHANGED sent
    /\ pc' = [pc EXCEPT ![p] = "payload"]
    /\ UNCHANGED <<clock, ledger, arg, todo, last, met>>

\* generate_email, the mail: JRC.send_email succeeds, or raises and the
\* error is logged.
SendEmail(p) ==
    /\ pc[p] = "send"
    /\ \E ok \in BOOLEAN :
         IF ok
         THEN /\ sent' = [sent EXCEPT ![last[p].user] =
                            Logged(@, [at |-> clock, by |-> p, recorded |-> "pending",
                                       overlap |-> met[p]])]
              /\ pc' = [pc EXCEPT ![p] = "payload"]
              /\ UNCHANGED last
         ELSE /\ pc' = [pc EXCEPT ![p] = "next"]
              /\ last' = [last EXCEPT ![p].colour = "error"]
              /\ UNCHANGED sent
    /\ UNCHANGED <<clock, ledger, arg, todo, met>>

\* generate_email, the payload: the time of the record is the clock's when
\* the payload is built, before the write is asked for.
Payload(p) ==
    /\ pc[p] = "payload"
    /\ last' = [last EXCEPT ![p].payload =
                    <<[size |-> last[p].size_hum, notified |-> clock]>>]
    /\ pc' = [pc EXCEPT ![p] = "upsert"]
    /\ UNCHANGED <<clock, ledger, sent, arg, todo, met>>

\* The log of mails notes, for the mail of p whose ledger write is still to
\* come, how that write ended.
Settle(log, p, how) ==
    [u \in Users |->
        [i \in DOMAIN log[u] |->
            IF log[u][i].by = p /\ log[u][i].recorded = "pending"
            THEN [log[u][i] EXCEPT !.recorded = how] ELSE log[u][i]]]

\* generate_email with a failed upsert logged like a failed mail: the run
\* carries on.
MutUpsertFailureContinues(p) ==
    /\ pc[p] = "upsert"
    /\ \E ok \in BOOLEAN :
         IF ok
         THEN /\ ledger' = update_one(ledger, last[p].user, last[p].payload[1])
              /\ sent' = Settle(sent, p, "yes")
              /\ last' = [last EXCEPT ![p].payload = <<>>]
         ELSE /\ sent' = Settle(sent, p, "no")
              /\ last' = [last EXCEPT ![p].colour = "error", ![p].payload = <<>>]
              /\ UNCHANGED ledger
    /\ pc' = [pc EXCEPT ![p] = "next"]
    /\ UNCHANGED <<clock, arg, todo, met>>

\* generate_email, the write: the upsert of the payload commits, or raises
\* and the program terminates.
Upsert(p) ==
    /\ pc[p] = "upsert"
    /\ \E ok \in BOOLEAN :
         IF ok
         THEN /\ ledger' = update_one(ledger, last[p].user, last[p].payload[1])
              /\ sent' = Settle(sent, p, "yes")
              /\ pc' = [pc EXCEPT ![p] = "next"]
              /\ last' = [last EXCEPT ![p].payload = <<>>]
              /\ UNCHANGED arg
         ELSE /\ sent' = Settle(sent, p, "no")
              /\ Exit(p, "failed", [last[p] EXCEPT !.colour = "critical", !.payload = <<>>])
              /\ UNCHANGED ledger
    /\ UNCHANGED <<clock, todo, met>>

\* The record is dealt with; on to the next one.
NextRecord(p) ==
    /\ pc[p] = "next"
    /\ pc' = [pc EXCEPT ![p] = "loop"]
    /\ last' = [last EXCEPT ![p] = NoReport]
    /\ UNCHANGED <<clock, ledger, sent, arg, todo, met>>

\* The loop is over: terminate_program() without a message.
Finish(p) ==
    /\ pc[p] = "loop"
    /\ todo[p] = 0
    /\ Exit(p, "done", NoReport)
    /\ UNCHANGED <<clock, ledger, sent, todo, met>>

Step(p, in) ==
    \/ CheckUser(p, in)
    \/ CheckDelta(p)
    \/ NextRecord(p)
    \/ SendEmail(p)
    \/ Payload(p)
    \/ Upsert(p)
    \/ Finish(p)

\* One invocation after the other (the cron job): a single process.
Main == 1
AnyInput == Input(Limits, BOOLEAN, StarfishReplies(MaxRecs), UsageRecs, WorkdayReplies)

Next == Tick \/ StartRun(Main, AnyInput) \/ Step(Main, AnyInput)

Spec == Init /\ [][Next]_vars

\* Invocations that may overlap: --write runs with the default limit over a
\* list that is not empty, of records of the home directory of one user, who
\* is active when Workday knows them.
Overlapping ==
    Input({DefaultLimit}, {TRUE},
          {r \in StarfishReplies(MaxOverlapRecs) : r.code = 200 /\ r.body > 0},
          {r \in UsageRecs : r.fn = "alice" /\ r.size.hi = Floor(DefaultLimit).hi},
          {r \in WorkdayReplies : r.code = 404 \/ (r.code = 200 /\ r.body.active = "Y")})

NextConc ==
    \/ Tick
    \/ \E p \in Procs : \/ StartRun(p, Overlapping)
                        \/ StartOverlappingRun(p, Overlapping)
                        \/ Step(p, Overlapping)

SpecConc == Init /\ [][NextConc]_vars

\* ----------------------------------------------------------------- claims
Active(work) == work.some /\ work.config /\ work.active = "Y"

\* bytes_used > limit * 2^40, that is den * bytes_used > num * 2^40: short is
\* what den * hi * 2^20 lacks to num * 2^40, in units of 2^20.
Over(size, limit) ==
    LET short == limit.num * Mi - limit.den * size.hi
    IN \/ short < 0
       \/ short < limit.den /\ limit.den * size.lo > short * Mi

\* The record of u in the collection, if any.
Rec(led, u) == IF u \in DOMAIN led THEN <<led[u]>> ELSE <<>>

\* At least 24 hours have passed since the record of u in led, if any.
CooledOff(led, u, now) == u \notin DOMAIN led \/ now - led[u].notified >= DAY

\* The last two mails to u went out less than 24 hours apart.
TooSoon(u) == Len(sent[u]) = 2 /\ sent[u][2].at - sent[u][1].at < DAY

\* C1, as claimed: over runs that do not overlap, whatever the mail transport
\* and the ledger do, two mails to one user are at least 24 hours apart.
C1_OncePerDay == \A u \in Users : ~TooSoon(u)

\* C1, amended: over runs that do not overlap, two mails to one user are at
\* least 24 hours apart unless the ledger write after the earlier one failed.
C1_OncePerDayUnlessWriteFailed ==
    \A u \in Users : TooSoon(u) => sent[u][1].recorded = "no"

C1_Witness ==
    \E u \in Users : /\ Len(sent[u]) = 2
                     /\ sent[u][1].recorded = "yes"
                     /\ sent[u][2].recorded = "pending"
                     /\ sent[u][2].at - sent[u][1].at >= DAY

\* C2: for a user Workday knows as active, notify_allowed returns true iff
\* the ledger has no record of the user or the record is at least 24 hours
\* old (24 hours sharp included).
C2_CoolOff ==
    [][(/\ pc[Main] \in {"loop", "delta"}
        /\ pc'[Main] \in {"next", "send"}
        /\ last'[Main].looked
        /\ Active(last'[Main].work))
       => (last'[Main].colour = "red" <=> CooledOff(ledger, last'[Main].user, clock))]_vars

C2_Witness ==
    /\ pc[Main] = "send"
    /\ last[Main].user \in DOMAIN ledger
    /\ clock - ledger[last[Main].user].notified = DAY

\* C3: when Workday has no entry for the user, or the entry is not active,
\* notify_allowed returns false whatever the ledger holds, and the ledger is
\* left as it was.
C3_NotActive ==
    [][(/\ pc[Main] = "loop"
        /\ pc'[Main] # "loop"
        /\ last'[Main].looked
        /\ ~Active(last'[Main].work))
       => (/\ last'[Main].colour = "yellow"
           /\ pc'[Main] = "next"
           /\ ledger' = ledger
           /\ sent' = sent)]_vars

C3_Witness ==
    /\ pc[Main] = "next"
    /\ last[Main].colour = "yellow"
    /\ last[Main].work.some
    /\ ~Active(last[Main].work)
    /\ last[Main].user \in DOMAIN ledger
    /\ clock - ledger[last[Main].user].notified >= DAY

\* C4: when Workday answers "not found" for a user over the limit, the run
\* aborts: the user is not reported as suppressed and the loop does not go on.
C4_NotFoundIsFatal ==
    \A p \in Procs : (last[p].looked /\ ~last[p].work.some) => pc[p] = "failed"

\* C5: a mail that fails in a --write run is not fatal: the ledger stays as
\* it was and the run goes on with the records that are left.
C5_MailFailureGoesOn ==
    [][/\ (pc[Main] = "send" /\ pc'[Main] # "send" /\ sent' = sent)
          => (/\ pc'[Main] = "next"
              /\ last'[Main].colour = "error"
              /\ ledger' = ledger
              /\ todo' = todo)
       /\ (pc[Main] = "next" /\ last[Main].colour = "error")
          => (/\ pc'[Main] \in {"next", "loop"}
              /\ ledger' = ledger
              /\ sent' = sent
              /\ todo' = todo)]_vars

C5_Witness ==
    /\ pc[Main] = "next"
    /\ last[Main].colour = "error"
    /\ todo[Main] > 0
    /\ last[Main].user \in DOMAIN ledger

\* C6: a ledger write that fails after a mail went out ends the run there:
\* the records that are left are not reached and no more mail goes out (the
\* next thing to happen to the process is a new run).
C6_LedgerFailureIsFatal ==
    [][/\ (pc[Main] = "upsert" /\ pc'[Main] # "upsert" /\ ledger' = ledger)
          => (/\ pc'[Main] = "failed"
              /\ todo' = todo)
       /\ (pc[Main] = "failed" /\ last[Main].colour = "critical")
          => (/\ ledger' = ledger
              /\ sent' = sent
              /\ \/ pc'[Main] = "failed" /\ todo'[Main] = todo[Main]
                 \/ last'[Main] = NoReport)]_vars

C6_Witness ==
    /\ pc[Main] = "failed"
    /\ last[Main].colour = "critical"
    /\ todo[Main] > 0

\* C7: a user's mails and ledger record change only for a record over the
\* limit, found eligible, in a --write run, and the ledger only after the
\* mail went out; a dry run, a suppressed user and every other user see no
\* mail and no ledger change.
C7_Frame ==
    [][\A u \in Users :
         (sent'[u] # sent[u] \/ Rec(ledger', u) # Rec(ledger, u))
         => (/\ last[Main].user = u
             /\ arg[Main].WRITE
             /\ last[Main].colour = "red"
             /\ Over(last[Main].size, arg[Main].LIMIT)
             /\ Active(last[Main].work)
             /\ pc[Main] \in {"send", "upsert"}
             /\ pc[Main] = "send" => CooledOff(ledger, u, clock)
             /\ Rec(ledger', u) # Rec(ledger, u)
                  => (/\ pc[Main] = "upsert"
                      /\ sent[u][Len(sent[u])].recorded = "pending"))]_vars

C7_Witness ==
    \E u, v \in Users :
        /\ u # v
        /\ pc[Main] = "next"
        /\ last[Main].user = u
        /\ last[Main].colour = "red"
        /\ arg[Main].WRITE
        /\ u \in DOMAIN ledger /\ ledger[u].notified = clock
        /\ v \in DOMAIN ledger /\ ledger[v].notified < clock

\* C8: a user's last_notified_at never goes back and a record is never
\* deleted: a step leaves the record as it is or, in the upsert, sets its
\* time to the now the run read for the payload, which is not before the
\* mail and not after the write.
C8_Monotone ==
    [][\A u \in Users :
         \/ Rec(ledger', u) = Rec(ledger, u)
         \/ /\ u \in DOMAIN ledger'
            /\ u \in DOMAIN ledger => ledger'[u].notified >= ledger[u].notified
            /\ pc[Main] = "upsert"
            /\ last[Main].user = u
            /\ ledger'[u].notified = last[Main].payload[1].notified
            /\ ledger'[u].notified >= sent[u][Len(sent[u])].at
            /\ ledger'[u].notified <= clock]_vars

C8_Witness ==
    \E u \in Users : /\ Len(sent[u]) = 2
                     /\ sent[u][1].recorded = "yes"
                     /\ sent[u][2].recorded = "yes"
                     /\ u \in DOMAIN ledger
                     /\ ledger[u].notified >= sent[u][2].at
                     /\ ledger[u].notified >= sent[u][1].at + DAY

\* C9: a record is flagged iff bytes_used > limit * 2^40; at or under the
\* limit it is reported ok, with no Workday lookup, no mail and no ledger
\* change.
C9_Threshold ==
    [][(pc[Main] = "loop" /\ pc'[Main] \in {"next", "send", "delta"})
       => (/\ last'[Main].colour = "green" <=> ~Over(last'[Main].size, arg[Main].LIMIT)
           /\ last'[Main].colour = "green"
                => (/\ ~last'[Main].looked
                    /\ pc'[Main] = "next"
                    /\ ledger' = ledger
                    /\ sent' = sent))]_vars

C9_Witness ==
    /\ pc[Main] = "next"
    /\ last[Main].colour = "green"
    /\ arg[Main].LIMIT.den * last[Main].size.hi = arg[Main].LIMIT.num * Mi
    /\ last[Main].size.lo = 0

\* C10: overlapping runs can mail a user twice within 24 hours (the witness);
\* short of a failed ledger write, that happens only when one of the two
\* mails came from a run that had overlapped another one.
C10_OnlyWhenOverlapping ==
    \A u \in Users :
        TooSoon(u) => \/ sent[u][1].recorded = "no"
                      \/ sent[u][1].overlap
                      \/ sent[u][2].overlap

C10_Witness ==
    \E u \in Users : /\ TooSoon(u)
                     /\ sent[u][1].recorded = "yes"
                     /\ sent[u][2].recorded = "yes"
                     /\ sent[u][1].by # sent[u][2].by

====
